---- MODULE Spec2Model ----
(***************************************************************************)
(* Cache-aside redirect path and visit-counter reconciliation of the URL   *)
(* shortener (src/app.py, src/helpers.py, src/models.py).                  *)
(*                                                                         *)
(* Durable store : tables short_urls and visits (PostgreSQL via SQLAlchemy)*)
(* Fast cache    : Redis keys "short:<code>" and "visits:<code>"           *)
(* Requests      : POST /url/shorten, GET /{short_url}, each followed by   *)
(*                 its FastAPI background task update_visit_in_db          *)
(* Job           : scheduled_sync_visits_to_db -> sync_visits_to_db        *)
(*                                                                         *)
(* Every Redis call and every store call is one step, so requests, their   *)
(* background tasks and the job interleave at exactly the places where the *)
(* code gives up control to the cache or the store.                        *)
(***************************************************************************)
EXTENDS Integers, Sequences, FiniteSets, TLC

\* ---------------------------------------------------------------- bounds
\* Number of well-formed GET /{short_url} requests in a behaviour.
MaxResolves == 2
\* Number of incidents in a behaviour: a cache outage that begins, a key that is
\* lost, a store call that raises.
MaxFaults == 1

\* Run times of the job that may be due and not yet processed by the scheduler.
MaxDue == 2

\* ------------------------------------------------------------- constants
\* Length of a short code: range(6) in the generator, {6} in the route's regex.
CodeLen == 6

\* string.ascii_letters + string.digits, and the class [A-Za-z0-9].
Alnum ==
  {"a","b","c","d","e","f","g","h","i","j","k","l","m","n","o","p","q","r","s","t",
   "u","v","w","x","y","z","A","B","C","D","E","F","G","H","I","J","K","L","M","N",
   "O","P","Q","R","S","T","U","V","W","X","Y","Z","0","1","2","3","4","5","6","7",
   "8","9"}

\* Codes are sequences of characters. The generator's draws come from CodePool,
\* a small part of Alnum^6.
CodePool == { <<"a","B","c","1","2","3">>, <<"Z","z","9","0","x","Y">> }

\* A well-formed code the generator never draws here ("aaaaaa" is never created).
UnknownCode == <<"a","a","a","a","a","a">>

\* Paths that are not six alphanumeric characters.
BadCodes ==
  { <<"z","z","9","!","!","!">>,
    <<"a","B","c","1","2">>,
    <<"a","B","c","1","2","3","4">>,
    <<"a","B","c","1","2","_">> }

ResolveInputs == CodePool \cup {UnknownCode} \cup BadCodes

\* Request bodies of POST /url/shorten, in the order they are posted: longUrl.url
\* is any str. A behaviour posts a prefix of them.
LongUrls == <<"https://example.com/page", "not a url">>

VARIABLES
  short_urls,    \* table short_urls: sequence of rows, a row's id is its index
  visit_rows,    \* table visits: rows in commit order, id from the table's sequence
  redis_short,   \* Redis keys short:<code>  -> long URL (present keys only)
  redis_visits,  \* Redis keys visits:<code> -> integer  (present keys only)
  redis_client,  \* TRUE: the module-level client object exists; FALSE: None
  redis_up,      \* TRUE: Redis answers; FALSE: every call raises (connection failure)
  req,           \* per slot: the handler's or background task's position and locals
  sync,          \* the scheduled job's position and locals
  response,      \* what the last step returned to a caller (or the job's report)
  nCreate,       \* shorten requests started
  nFault,        \* incidents so far
  nResolve,      \* well-formed redirect requests started
  issued,        \* history: code -> long URL of each 200 answer of shorten_url
  returned,      \* history: code -> long URL of the first 302 answer for it
  resolved,      \* history: code -> number of 302 answers
  hits,          \* history: code -> number of 302 answers served on the hit path
  scheduler      \* the job's timer: run times that are due, and what became of them

vars == <<short_urls, visit_rows, redis_short, redis_visits, redis_client, redis_up,
          req, sync, response, nCreate, nResolve, nFault, issued, returned, resolved,
          hits, scheduler>>

store == <<short_urls, visit_rows>>
cache == <<redis_short, redis_visits>>
hist  == <<issued, returned, resolved, hits>>
env   == <<redis_client, redis_up, nFault>>

\* Request handlers that may be in flight at once, each with its background task.
Slots == DOMAIN req

\* ----------------------------------------------------------- key-value ops
Has(f, k) == k \in DOMAIN f
Put(f, k, v) == [x \in DOMAIN f \cup {k} |-> IF x = k THEN v ELSE f[x]]
Del(f, k) == [x \in DOMAIN f \ {k} |-> f[x]]

\* Mutant of Incr: the new value is written with SET from a value read as 0, so
\* an increment made in between is lost.
SetToOne(f, k) == Put(f, k, 1)

\* redis INCR: an absent key counts as 0.
Incr(f, k) == Put(f, k, (IF Has(f, k) THEN f[k] ELSE 0) + 1)

\* Mutant of SetNx: a plain SET, which replaces a value that is there.
SetAlways(f, k, v) == [x \in DOMAIN f \cup {k} |-> IF x = k THEN v ELSE f[x]]

\* redis SETNX: writes only when the key is absent.
SetNx(f, k, v) == IF Has(f, k) THEN f ELSE Put(f, k, v)

\* -------------------------------------------------------------- store ops
\* db.query(ShortUrl).filter(ShortUrl.short_url == code).first(): id or 0 (None).
FindRow(code) ==
  IF \E i \in 1..Len(short_urls) : short_urls[i].short_url = code
  THEN CHOOSE i \in 1..Len(short_urls) :
         /\ short_urls[i].short_url = code
         /\ \A j \in 1..(i - 1) : short_urls[j].short_url # code
  ELSE 0

\* Number of committed Visit rows that reference short_urls row id.
EventsOf(id) == Cardinality({k \in 1..Len(visit_rows) : visit_rows[k].short_url_id = id})

\* Mutant of re_fullmatch: re.match, which accepts any path that begins with six
\* alphanumeric characters.
re_match(code) == Len(code) >= CodeLen /\ \A i \in 1..CodeLen : code[i] \in Alnum

\* re.fullmatch(r"[A-Za-z0-9]{6}", short_url)
re_fullmatch(code) == Len(code) = CodeLen /\ \A i \in 1..Len(code) : code[i] \in Alnum

\* ------------------------------------------------------------------ locals
Idle == [pc |-> "idle", op |-> "none", code |-> <<>>, url |-> "", id |-> 0, v |-> 0,
         calls |-> 0, cwrites |-> 0, csucc |-> FALSE, dbErr |-> FALSE,
         hit |-> FALSE, expect |-> ""]

SyncIdle == [pc |-> "idle", objs |-> <<>>, i |-> 0, quiet |-> FALSE, again |-> "no"]

NoResponse == [op |-> "none"]

\* The answer of GET /{short_url} as the caller sees it, with what the handler did.
ResolveResponse(r, status, url, scheduled) ==
  [op |-> "resolve", code |-> r.code, status |-> status, url |-> url,
   hit |-> r.hit, calls |-> r.calls, cwrites |-> r.cwrites, csucc |-> r.csucc,
   dbErr |-> r.dbErr, expect |-> r.expect, scheduled |-> scheduled]

\* The answer of POST /url/shorten.
CreateResponse(r, status) ==
  [op |-> "create", code |-> r.code, status |-> status, url |-> r.url,
   csucc |-> r.csucc, dbErr |-> r.dbErr]

\* FastAPI runs the task added with background_tasks.add_task after the response.
Background(r) == [Idle EXCEPT !.pc = "b_read", !.op = "record", !.code = r.code]

\* A request that starts while a pass of the job runs ends the pass's quiet period.
Disturbed == IF sync.pc = "idle" THEN sync ELSE [sync EXCEPT !.quiet = FALSE]

\* Nothing is in flight: no handler, no background task, no pass of the job.
Quiescent == sync.pc = "idle" /\ \A s \in Slots : req[s].pc = "idle"

\* Slots are taken in order, so that equal runs are not explored once per slot.
FreeSlot(s) == req[s].pc = "idle" /\ \A t \in Slots : t < s => req[t].pc # "idle"

InitWith(slots) ==
  /\ short_urls = <<>>
  /\ visit_rows = <<>>
  /\ redis_short = <<>>
  /\ redis_visits = <<>>
  /\ redis_client \in BOOLEAN
  /\ redis_up = TRUE
  /\ req = [s \in slots |-> Idle]
  /\ sync = SyncIdle
  /\ response = NoResponse
  /\ nCreate = 0
  /\ scheduler = [due |-> 0, stacked |-> 0, merged |-> FALSE, skipped |-> FALSE,
                  failed |-> FALSE]
  /\ nResolve = 0
  /\ nFault = 0
  /\ issued = <<>>
  /\ returned = <<>>
  /\ resolved = [c \in CodePool |-> 0]
  /\ hits = [c \in CodePool |-> 0]


\* ------------------------------------------------- POST /url/shorten
\* shorten_url is entered: the generator is called first.
CreateStart(s, u) ==
  /\ FreeSlot(s)
  /\ nCreate < Len(LongUrls)
  /\ u = LongUrls[nCreate + 1]
  /\ nCreate' = nCreate + 1
  /\ req' = [req EXCEPT ![s] = [Idle EXCEPT !.pc = "gen", !.op = "create", !.url = u]]
  /\ sync' = Disturbed
  /\ response' = NoResponse
  /\ UNCHANGED <<store, cache, env, nResolve, hist, scheduler>>

\* short_url_generator: one draw and its existence query. A taken candidate is
\* redrawn (the while loop goes round again), a free one is returned.
short_url_generator(s, random_string) ==
  /\ req[s].pc = "gen"
  /\ req' = IF FindRow(random_string) # 0
            THEN req
            ELSE [req EXCEPT ![s].code = random_string, ![s].pc = "commit"]
  /\ response' = NoResponse
  /\ UNCHANGED <<store, cache, env, sync, nCreate, scheduler, nResolve, hist>>

\* Mutant of UniqueViolation: the column has no unique index.
NoUniqueIndex(code) == FALSE

\* The unique index on short_urls.short_url makes the INSERT of a taken code fail.
UniqueViolation(code) == \E i \in 1..Len(short_urls) : short_urls[i].short_url = code

\* Mutant of CreateRaises: the cache entry is written before db.commit(), so a
\* create whose commit raises has already set short:<code>.
CreateRaisesAfterCacheWrite(s, r) ==
  /\ req' = [req EXCEPT ![s] = Idle]
  /\ response' = CreateResponse(r, 500)
  /\ redis_short' = IF redis_client /\ redis_up
                    THEN Put(redis_short, r.code, r.url) ELSE redis_short
  /\ UNCHANGED <<store, redis_visits, issued>>

\* An exception that leaves shorten_url: FastAPI answers 500.
CreateRaises(s, r) ==
  /\ req' = [req EXCEPT ![s] = Idle]
  /\ response' = CreateResponse(r, 500)
  /\ UNCHANGED <<store, cache, issued>>

\* return short_url_obj: the 200 answer with the new mapping.
CreateReturns(s, r) ==
  /\ req' = [req EXCEPT ![s] = Idle]
  /\ response' = CreateResponse(r, 200)
  /\ issued' = Put(issued, r.code, r.url)

\* db.add(short_url_obj); db.commit(). Without a client the handler returns here.
CreateCommit(s) ==
  /\ req[s].pc = "commit"
  /\ IF UniqueViolation(req[s].code)
     THEN CreateRaises(s, [req[s] EXCEPT !.dbErr = TRUE])
     ELSE /\ short_urls' = Append(short_urls,
               [short_url |-> req[s].code, long_url |-> req[s].url, visits |-> 0])
          /\ UNCHANGED <<visit_rows, cache>>
          /\ IF redis_client
             THEN /\ req' = [req EXCEPT ![s].pc = "c_set",
                                        ![s].id = Len(short_urls) + 1, ![s].v = 0]
                  /\ response' = NoResponse
                  /\ UNCHANGED issued
             ELSE CreateReturns(s, req[s])
  /\ UNCHANGED <<env, sync, nCreate, scheduler, nResolve, returned, resolved, hits>>

\* redis_client.set(f"short:{short_url}", long_url)
CreateSet(s) ==
  /\ req[s].pc = "c_set"
  /\ redis_up
  /\ redis_short' = Put(redis_short, req[s].code, req[s].url)
  /\ req' = [req EXCEPT ![s].pc = "c_setnx", ![s].csucc = TRUE]
  /\ response' = NoResponse
  /\ UNCHANGED <<store, redis_visits, env, sync, nCreate, scheduler, nResolve, hist>>

\* redis_client.setnx(f"visits:{short_url}", visits or 0), then the return.
CreateSetnx(s) ==
  /\ req[s].pc = "c_setnx"
  /\ redis_up
  /\ redis_visits' = SetNx(redis_visits, req[s].code, req[s].v)
  /\ CreateReturns(s, req[s])
  /\ UNCHANGED <<store, redis_short, env, sync, nCreate, scheduler, nResolve,
                 returned, resolved, hits>>


\* ------------------------------------------------- GET /{short_url}
\* Mutant of Redirects: the handler returns the redirect without add_task.
RedirectsWithoutTask(s, r, url) ==
  /\ req' = [req EXCEPT ![s] = Idle]
  /\ response' = ResolveResponse(r, 302, url, FALSE)
  /\ resolved' = [resolved EXCEPT ![r.code] = @ + 1]
  /\ hits' = [hits EXCEPT ![r.code] = @ + (IF r.hit THEN 1 ELSE 0)]
  /\ returned' = IF Has(returned, r.code) THEN returned ELSE Put(returned, r.code, url)

\* The 302 answer: RedirectResponse(url), with the background task scheduled.
Redirects(s, r, url) ==
  /\ req' = [req EXCEPT ![s] = Background(r)]
  /\ response' = ResolveResponse(r, 302, url, TRUE)
  /\ resolved' = [resolved EXCEPT ![r.code] = @ + 1]
  /\ hits' = [hits EXCEPT ![r.code] = @ + (IF r.hit THEN 1 ELSE 0)]
  /\ returned' = IF Has(returned, r.code) THEN returned ELSE Put(returned, r.code, url)

\* Mutant of Fails: add_task is called before the handler raises, so the error
\* answer leaves a recording scheduled.
FailsAfterAddTask(s, r, status) ==
  /\ req' = [req EXCEPT ![s] = Background(r)]
  /\ response' = ResolveResponse(r, status, "", TRUE)
  /\ UNCHANGED <<returned, resolved, hits>>

\* An HTTPException or an escaping exception: the answer is an error, no task.
Fails(s, r, status) ==
  /\ req' = [req EXCEPT ![s] = Idle]
  /\ response' = ResolveResponse(r, status, "", FALSE)
  /\ UNCHANGED <<returned, resolved, hits>>

\* redirect_to_long_url is entered: the format check comes first. A malformed
\* code is answered 400 at once; that request is one step that shares nothing, so
\* it is started only when nothing else is in flight.
ResolveStart(s, short_url) ==
  /\ FreeSlot(s)
  /\ IF ~re_fullmatch(short_url)
     THEN /\ Quiescent
          /\ response' = ResolveResponse([Idle EXCEPT !.code = short_url], 400, "", FALSE)
          /\ UNCHANGED <<req, sync, nResolve>>
     ELSE /\ nResolve < MaxResolves
          /\ nResolve' = nResolve + 1
          /\ req' = [req EXCEPT ![s] =
                       [Idle EXCEPT !.pc = IF redis_client THEN "r_get" ELSE "r_db",
                                    !.op = "resolve", !.code = short_url,
                                    !.expect = IF Has(issued, short_url)
                                               THEN issued[short_url] ELSE ""]]
          /\ sync' = Disturbed
          /\ response' = NoResponse
  /\ UNCHANGED <<store, cache, env, nCreate, scheduler, hist>>

\* long_url = redis_client.get(f"short:{short_url}"); a missing key (or an empty
\* value) is falsy and falls through to the store.
ResolveGet(s) ==
  /\ req[s].pc = "r_get"
  /\ redis_up
  /\ req' = [req EXCEPT ![s].calls = @ + 1, ![s].csucc = TRUE,
                        ![s].url = IF Has(redis_short, req[s].code)
                                   THEN redis_short[req[s].code] ELSE "",
                        ![s].pc = IF Has(redis_short, req[s].code)
                                     /\ redis_short[req[s].code] # ""
                                  THEN "r_incr" ELSE "r_db"]
  /\ response' = NoResponse
  /\ UNCHANGED <<store, cache, env, sync, nCreate, scheduler, nResolve, hist>>

\* Hit path: redis_client.incr(f"visits:{short_url}"), add_task, 302.
ResolveIncr(s) ==
  /\ req[s].pc = "r_incr"
  /\ redis_up
  /\ redis_visits' = Incr(redis_visits, req[s].code)
  /\ Redirects(s, [req[s] EXCEPT !.calls = @ + 1, !.cwrites = @ + 1, !.hit = TRUE],
               req[s].url)
  /\ UNCHANGED <<store, redis_short, env, sync, nCreate, scheduler, nResolve, issued>>

\* Mutant of Loaded: the handler goes on with long_url, the variable of the cache
\* lookup, instead of short_url_obj.long_url.
LoadedKeepsCacheValue(r, id) == [r EXCEPT !.id = id, !.v = short_urls[id].visits]

\* The handler's locals once the query returned row id: short_url_obj.long_url
\* and short_url_obj.visits are what the rest of the miss path uses.
Loaded(r, id) ==
  [r EXCEPT !.id = id, !.url = short_urls[id].long_url, !.v = short_urls[id].visits]

\* Miss path: db.query(ShortUrl).filter(...).first(); None is answered 404.
\* Without a client the cache repair is skipped and the handler answers here.
ResolveDb(s) ==
  /\ req[s].pc = "r_db"
  /\ LET id == FindRow(req[s].code)
         r  == [req[s] EXCEPT !.calls = @ + 1]
     IN IF id = 0
        THEN Fails(s, r, 404)
        ELSE LET obj == Loaded(r, id)
             IN IF redis_client
                THEN /\ req' = [req EXCEPT ![s] = [obj EXCEPT !.pc = "m_set"]]
                     /\ response' = NoResponse
                     /\ UNCHANGED <<returned, resolved, hits>>
                ELSE Redirects(s, obj, obj.url)
  /\ UNCHANGED <<store, cache, env, sync, nCreate, scheduler, nResolve, issued>>

\* redis_client.set(f"short:{short_url}", short_url_obj.long_url)
MissSetShort(s) ==
  /\ req[s].pc = "m_set"
  /\ redis_up
  /\ redis_short' = Put(redis_short, req[s].code, req[s].url)
  /\ req' = [req EXCEPT ![s].pc = "m_setv", ![s].calls = @ + 1, ![s].cwrites = @ + 1,
                        ![s].csucc = TRUE]
  /\ response' = NoResponse
  /\ UNCHANGED <<store, redis_visits, env, sync, nCreate, scheduler, nResolve, hist>>

\* redis_client.set(f"visits:{short_url}", short_url_obj.visits or 0): a plain SET.
MissSetVisits(s) ==
  /\ req[s].pc = "m_setv"
  /\ redis_up
  /\ redis_visits' = Put(redis_visits, req[s].code, req[s].v)
  /\ req' = [req EXCEPT ![s].pc = "m_incr", ![s].calls = @ + 1, ![s].cwrites = @ + 1,
                        ![s].csucc = TRUE]
  /\ response' = NoResponse
  /\ UNCHANGED <<store, redis_short, env, sync, nCreate, scheduler, nResolve, hist>>

\* redis_client.incr(f"visits:{short_url}"), then add_task and the 302.
MissIncr(s) ==
  /\ req[s].pc = "m_incr"
  /\ redis_up
  /\ redis_visits' = Incr(redis_visits, req[s].code)
  /\ Redirects(s, [req[s] EXCEPT !.calls = @ + 1, !.cwrites = @ + 1, !.csucc = TRUE],
               req[s].url)
  /\ UNCHANGED <<store, redis_short, env, sync, nCreate, scheduler, nResolve, issued>>

\* ------------------------------------------------- background task
\* update_visit_in_db: the row is read; a missing row ends the task.
RecordRead(s) ==
  /\ req[s].pc = "b_read"
  /\ LET id == FindRow(req[s].code)
     IN req' = IF id = 0
               THEN [req EXCEPT ![s] = Idle]
               ELSE [req EXCEPT ![s].pc = "b_commit", ![s].id = id,
                                ![s].v = short_urls[id].visits]
  /\ response' = NoResponse
  /\ UNCHANGED <<store, cache, env, sync, nCreate, scheduler, nResolve, hist>>

\* Mutant of RecordCommit: the task writes the whole row back, built from its own
\* arguments, among which there is no long URL.
RecordCommitWritesRow(s) ==
  /\ req[s].pc = "b_commit"
  /\ short_urls' = [short_urls EXCEPT ![req[s].id] =
                      [short_url |-> req[s].code, long_url |-> req[s].url,
                       visits |-> req[s].v + 1]]
  /\ visit_rows' = Append(visit_rows,
                          [id |-> Len(visit_rows) + 1, short_url_id |-> req[s].id])
  /\ req' = [req EXCEPT ![s] = Idle]
  /\ response' = NoResponse
  /\ UNCHANGED <<cache, env, sync, nCreate, scheduler, nResolve, hist>>

\* Mutant of RecordCommit: the task keeps one Visit row per mapping, replacing
\* the mapping's earlier row by the new one.
RecordCommitUpserts(s) ==
  /\ req[s].pc = "b_commit"
  /\ short_urls' = [short_urls EXCEPT ![req[s].id].visits = req[s].v + 1]
  /\ visit_rows' =
       Append(SelectSeq(visit_rows, LAMBDA r : r.short_url_id # req[s].id),
              [id |-> Len(visit_rows) + 1, short_url_id |-> req[s].id])
  /\ req' = [req EXCEPT ![s] = Idle]
  /\ response' = NoResponse
  /\ UNCHANGED <<cache, env, sync, nCreate, scheduler, nResolve, hist>>

\* short_url_obj.visits += 1; db.add(visit); db.commit(): the UPDATE writes the
\* value computed from what the task read.
RecordCommit(s) ==
  /\ req[s].pc = "b_commit"
  /\ short_urls' = [short_urls EXCEPT ![req[s].id].visits = req[s].v + 1]
  /\ visit_rows' = Append(visit_rows, [id |-> Len(visit_rows) + 1, short_url_id |-> req[s].id])
  /\ req' = [req EXCEPT ![s] = Idle]
  /\ response' = NoResponse
  /\ UNCHANGED <<cache, env, sync, nCreate, scheduler, nResolve, hist>>


\* ------------------------------------------------- scheduled job
\* The rows of the pass whose visits attribute was set to a new value: what the
\* commit flushes.
Dirty(objs) == {j \in 1..Len(objs) : objs[j].visits # objs[j].loaded}

\* What the job reports when a pass ends (its log lines), with the pass's locals.
SyncReport(outcome, bad) ==
  [op |-> "sync", outcome |-> outcome, objs |-> sync.objs, quiet |-> sync.quiet,
   bad |-> bad, again |-> sync.again]

\* scheduled_sync_visits_to_db -> sync_visits_to_db: without a client the pass
\* returns at once; otherwise db.query(ShortUrl).all() loads every row. ev and
\* read are history: the Visit rows committed for the row when the pass began,
\* and whether the pass got an answer from Redis for the row's counter; again is
\* the outcome of the pass that ended in the step before, if that pass ran to
\* its end with no request in flight, and "no" otherwise.
StartPass ==
  /\ IF ~redis_client
     THEN /\ response' = SyncReport("no client", 0)
          /\ UNCHANGED sync
     ELSE /\ sync' = [pc |-> "loop", i |-> 1,
                      quiet |-> \A s \in Slots : req[s].pc = "idle",
                      again |-> IF /\ response.op = "sync"
                                   /\ response.quiet
                                   /\ response.outcome \in {"committed", "nothing"}
                                THEN response.outcome ELSE "no",
                      objs |-> [j \in 1..Len(short_urls) |->
                                  [short_url |-> short_urls[j].short_url,
                                   loaded |-> short_urls[j].visits,
                                   visits |-> short_urls[j].visits,
                                   read |-> FALSE,
                                   ev |-> EventsOf(j)]]]
          /\ response' = NoResponse
  /\ UNCHANGED <<store, cache, env, req, nCreate, nResolve, hist>>

\* A pass begins when no pass is running.
SyncStart ==
  /\ sync.pc = "idle"
  /\ StartPass
  /\ UNCHANGED scheduler

\* Mutant of max_instances: two executions of the job may run at once.
two_instances == 1 + 1

\* job_defaults of the BackgroundScheduler.
coalesce == TRUE
max_instances == 1

\* Executions of the job in flight.
Instances == IF sync.pc = "idle" THEN 0 ELSE 1

\* The interval trigger: one more run time of sync_visits_job is due. Run times
\* pile up while the scheduler has not yet processed them.
Tick ==
  /\ scheduler.due < MaxDue
  /\ scheduler' = [scheduler EXCEPT !.due = @ + 1]
  /\ response' = NoResponse
  /\ UNCHANGED <<store, cache, env, req, sync, nCreate, nResolve, hist>>

\* The scheduler processes the due run times of the job. With coalesce they
\* become one run, otherwise one run each, executed one after the other by the
\* submitted instance. The submission is refused, and the run times dropped,
\* when max_instances executions are in flight.
Dispatch ==
  /\ scheduler.due > 0
  /\ LET run_times == IF coalesce THEN 1 ELSE scheduler.due
     IN IF Instances >= max_instances
        THEN /\ scheduler' = [scheduler EXCEPT !.due = 0, !.skipped = TRUE]
             /\ response' = NoResponse
             /\ UNCHANGED <<store, cache, env, req, sync, nCreate, nResolve, hist>>
        ELSE /\ scheduler' = [scheduler EXCEPT !.due = 0, !.stacked = run_times - 1,
                                               !.merged = @ \/ scheduler.due > 1]
             /\ StartPass

\* Mutant of NeedsSync: the row is updated only when the counter is higher.
NeedsSyncOnlyHigher(o) ==
  Has(redis_visits, o.short_url) /\ o.visits < redis_visits[o.short_url]

\* if visit_count is not None: ... if short_url_obj.visits != visit_count
NeedsSync(o) ==
  Has(redis_visits, o.short_url) /\ o.visits # redis_visits[o.short_url]

\* Mutant of SyncLoop: the pass adds the counter to the loaded visits instead
\* of assigning it.
SyncLoopAdds ==
  /\ sync.pc = "loop"
  /\ redis_up
  /\ sync.i <= Len(sync.objs)
  /\ LET o == sync.objs[sync.i]
     IN sync' = [sync EXCEPT !.i = @ + 1,
                             !.objs[sync.i].read = TRUE,
                             !.objs[sync.i].visits =
                                IF Has(redis_visits, o.short_url)
                                THEN @ + redis_visits[o.short_url] ELSE @]
  /\ response' = NoResponse
  /\ UNCHANGED <<store, cache, env, req, nCreate, scheduler, nResolve, hist>>

\* One round of the for loop: visit_count = redis_client.get(redis_key); a present
\* counter that differs from the loaded visits is assigned to the row object.
SyncLoop ==
  /\ sync.pc = "loop"
  /\ redis_up
  /\ sync.i <= Len(sync.objs)
  /\ LET o == sync.objs[sync.i]
     IN sync' = [sync EXCEPT !.i = @ + 1,
                             !.objs[sync.i].read = TRUE,
                             !.objs[sync.i].visits =
                                IF NeedsSync(o) THEN redis_visits[o.short_url] ELSE @]
  /\ response' = NoResponse
  /\ UNCHANGED <<store, cache, env, req, nCreate, scheduler, nResolve, hist>>

\* Mutant of SyncCommit: the commit writes the visits of every row the pass
\* loaded, the rows it did not assign included.
SyncCommitWritesAll ==
  /\ sync.pc = "loop"
  /\ sync.i > Len(sync.objs)
  /\ short_urls' = [j \in 1..Len(short_urls) |->
                      IF j <= Len(sync.objs) /\ Dirty(sync.objs) # {}
                      THEN [short_urls[j] EXCEPT !.visits = sync.objs[j].visits]
                      ELSE short_urls[j]]
  /\ response' = SyncReport(IF Dirty(sync.objs) # {} THEN "committed" ELSE "nothing", 0)
  /\ sync' = SyncIdle
  /\ UNCHANGED <<visit_rows, cache, env, req, nCreate, scheduler, nResolve, hist>>

\* Mutant of SyncCommit: after the commit the job deletes the counter of every
\* row it wrote.
SyncCommitClears ==
  /\ sync.pc = "loop"
  /\ sync.i > Len(sync.objs)
  /\ short_urls' = [j \in 1..Len(short_urls) |->
                      IF j \in Dirty(sync.objs)
                      THEN [short_urls[j] EXCEPT !.visits = sync.objs[j].visits]
                      ELSE short_urls[j]]
  /\ redis_visits' = [c \in DOMAIN redis_visits
                         \ {sync.objs[j].short_url : j \in Dirty(sync.objs)}
                       |-> redis_visits[c]]
  /\ response' = SyncReport(IF Dirty(sync.objs) # {} THEN "committed" ELSE "nothing", 0)
  /\ sync' = SyncIdle
  /\ UNCHANGED <<visit_rows, redis_short, env, req, nCreate, scheduler, nResolve, hist>>

\* After the loop: if synced_count > 0 then db.commit() writes every assigned
\* visits value in one transaction. No cache key is written by the job.
SyncCommit ==
  /\ sync.pc = "loop"
  /\ sync.i > Len(sync.objs)
  /\ short_urls' = [j \in 1..Len(short_urls) |->
                      IF j \in Dirty(sync.objs)
                      THEN [short_urls[j] EXCEPT !.visits = sync.objs[j].visits]
                      ELSE short_urls[j]]
  /\ response' = SyncReport(IF Dirty(sync.objs) # {} THEN "committed" ELSE "nothing", 0)
  /\ sync' = SyncIdle
  /\ UNCHANGED <<visit_rows, cache, env, req, nCreate, scheduler, nResolve, hist>>

\* ------------------------------------------------- faults and eviction
\* Mutant of RedisError: the Redis calls are not wrapped in try/except, so the
\* exception leaves the handler and the caller gets 500.
RedisErrorEscapes(s) ==
  /\ req[s].pc \in {"c_set", "c_setnx", "r_get", "r_incr", "m_set", "m_setv", "m_incr"}
  /\ ~redis_up
  /\ IF req[s].pc \in {"c_set", "c_setnx"}
     THEN /\ CreateRaises(s, req[s])
          /\ UNCHANGED <<returned, resolved, hits>>
     ELSE /\ Fails(s, [req[s] EXCEPT !.calls = @ + 1], 500)
          /\ UNCHANGED <<store, cache, issued>>
  /\ UNCHANGED <<env, sync, nCreate, scheduler, nResolve>>

\* A Redis call raises (connection failure, timeout). shorten_url prints and
\* returns the mapping; the redirect's first try block falls through to the store;
\* its second try block prints and goes on to add_task and the 302.
RedisError(s) ==
  /\ req[s].pc \in {"c_set", "c_setnx", "r_get", "r_incr", "m_set", "m_setv", "m_incr"}
  /\ ~redis_up
  /\ IF req[s].pc \in {"c_set", "c_setnx"}
     THEN /\ CreateReturns(s, req[s])
          /\ UNCHANGED <<returned, resolved, hits>>
     ELSE IF req[s].pc \in {"r_get", "r_incr"}
     THEN /\ req' = [req EXCEPT ![s].pc = "r_db", ![s].calls = @ + 1]
          /\ response' = NoResponse
          /\ UNCHANGED hist
     ELSE /\ Redirects(s, [req[s] EXCEPT !.calls = @ + 1], req[s].url)
          /\ UNCHANGED issued
  /\ UNCHANGED <<store, cache, env, sync, nCreate, scheduler, nResolve>>

\* Mutant of SyncRedisError: a counter that could not be read counts as 0.
SyncRedisErrorReadsZero ==
  /\ sync.pc = "loop"
  /\ ~redis_up
  /\ sync.i <= Len(sync.objs)
  /\ sync' = [sync EXCEPT !.i = @ + 1, !.objs[sync.i].visits = 0]
  /\ scheduler' = [scheduler EXCEPT !.failed = TRUE]
  /\ response' = NoResponse
  /\ UNCHANGED <<store, cache, env, req, nCreate, nResolve, hist>>

\* redis_client.get raises inside the job's loop: the row is skipped (continue).
SyncRedisError ==
  /\ sync.pc = "loop"
  /\ ~redis_up
  /\ sync.i <= Len(sync.objs)
  /\ sync' = [sync EXCEPT !.i = @ + 1]
  /\ scheduler' = [scheduler EXCEPT !.failed = TRUE]
  /\ response' = NoResponse
  /\ UNCHANGED <<store, cache, env, req, nCreate, nResolve, hist>>

\* Mutant of DbError: the miss path catches the store's exception and answers
\* as if the row were missing.
DbErrorNotFound(s) ==
  /\ req[s].pc \in {"gen", "commit", "r_db", "b_read", "b_commit"}
  /\ nFault < MaxFaults
  /\ nFault' = nFault + 1
  /\ IF req[s].pc \in {"gen", "commit"}
     THEN /\ CreateRaises(s, [req[s] EXCEPT !.dbErr = TRUE])
          /\ UNCHANGED <<returned, resolved, hits>>
     ELSE IF req[s].pc = "r_db"
     THEN /\ Fails(s, [req[s] EXCEPT !.calls = @ + 1, !.dbErr = TRUE], 404)
          /\ UNCHANGED <<store, cache, issued>>
     ELSE /\ req' = [req EXCEPT ![s] = Idle]
          /\ response' = NoResponse
          /\ UNCHANGED <<store, cache, hist>>
  /\ UNCHANGED <<redis_client, redis_up, sync, nCreate, scheduler, nResolve>>

\* Mutant of DbError: the recording runs inside the handler, so its exception
\* reaches the caller as a 500.
DbErrorSurfaces(s) ==
  /\ req[s].pc \in {"gen", "commit", "r_db", "b_read", "b_commit"}
  /\ nFault < MaxFaults
  /\ nFault' = nFault + 1
  /\ IF req[s].pc \in {"gen", "commit"}
     THEN /\ CreateRaises(s, [req[s] EXCEPT !.dbErr = TRUE])
          /\ UNCHANGED <<returned, resolved, hits>>
     ELSE IF req[s].pc = "r_db"
     THEN /\ Fails(s, [req[s] EXCEPT !.calls = @ + 1, !.dbErr = TRUE], 500)
          /\ UNCHANGED <<store, cache, issued>>
     ELSE /\ req' = [req EXCEPT ![s] = Idle]
          /\ response' = ResolveResponse([req[s] EXCEPT !.dbErr = TRUE], 500, "", FALSE)
          /\ UNCHANGED <<store, cache, hist>>
  /\ UNCHANGED <<redis_client, redis_up, sync, nCreate, scheduler, nResolve>>

\* A store call of a request raises. In a handler the exception escapes (500);
\* in the background task it ends the task, and nothing of it is committed.
DbError(s) ==
  /\ req[s].pc \in {"gen", "commit", "r_db", "b_read", "b_commit"}
  /\ nFault < MaxFaults
  /\ nFault' = nFault + 1
  /\ IF req[s].pc \in {"gen", "commit"}
     THEN /\ CreateRaises(s, [req[s] EXCEPT !.dbErr = TRUE])
          /\ UNCHANGED <<returned, resolved, hits>>
     ELSE IF req[s].pc = "r_db"
     THEN /\ Fails(s, [req[s] EXCEPT !.calls = @ + 1, !.dbErr = TRUE], 500)
          /\ UNCHANGED <<store, cache, issued>>
     ELSE /\ req' = [req EXCEPT ![s] = Idle]
          /\ response' = NoResponse
          /\ UNCHANGED <<store, cache, hist>>
  /\ UNCHANGED <<redis_client, redis_up, sync, nCreate, scheduler, nResolve>>

\* Mutant of SyncDbError: no except clause catches the store's exception, the
\* job's thread ends where it was raised and the pass never returns.
SyncDbErrorEscapes(bad) ==
  /\ \/ sync.pc = "idle" /\ redis_client /\ bad = 0
     \/ sync.pc = "loop" /\ sync.i > Len(sync.objs) /\ bad \in Dirty(sync.objs)
  /\ nFault < MaxFaults
  /\ nFault' = nFault + 1
  /\ response' = SyncReport("failed", bad)
  /\ sync' = [sync EXCEPT !.pc = "raised"]
  /\ scheduler' = [scheduler EXCEPT !.failed = TRUE]
  /\ UNCHANGED <<store, cache, redis_client, redis_up, req, nCreate, nResolve, hist>>

\* A store call of the job raises: the query of all rows (bad = 0), or the
\* commit, where the UPDATE of row bad fails. The outer except rolls back, so
\* no row of the pass is written.
SyncDbError(bad) ==
  /\ \/ sync.pc = "idle" /\ redis_client /\ bad = 0
     \/ sync.pc = "loop" /\ sync.i > Len(sync.objs) /\ bad \in Dirty(sync.objs)
  /\ nFault < MaxFaults
  /\ nFault' = nFault + 1
  /\ response' = SyncReport("failed", bad)
  /\ sync' = SyncIdle
  /\ scheduler' = [scheduler EXCEPT !.failed = TRUE]
  /\ UNCHANGED <<store, cache, redis_client, redis_up, req, nCreate, nResolve, hist>>

\* Redis becomes unreachable: from now on every call raises.
Outage ==
  /\ redis_up
  /\ nFault < MaxFaults
  /\ redis_up' = FALSE
  /\ nFault' = nFault + 1
  /\ response' = NoResponse
  /\ UNCHANGED <<store, cache, redis_client, req, sync, nCreate, scheduler, nResolve, hist>>

\* Redis is reachable again, with the keys it held.
Recovery ==
  /\ ~redis_up
  /\ redis_up' = TRUE
  /\ response' = NoResponse
  /\ UNCHANGED <<store, cache, redis_client, nFault, req, sync, nCreate, scheduler, nResolve, hist>>

\* Redis drops a key (memory pressure, restart, expiry).
Evict(c) ==
  /\ nFault < MaxFaults
  /\ nFault' = nFault + 1
  /\ \/ Has(redis_short, c) /\ redis_short' = Del(redis_short, c)
                            /\ UNCHANGED redis_visits
     \/ Has(redis_visits, c) /\ redis_visits' = Del(redis_visits, c)
                             /\ UNCHANGED redis_short
  /\ response' = NoResponse
  /\ UNCHANGED <<store, redis_client, redis_up, req, sync, nCreate, scheduler, nResolve, hist>>

\* ------------------------------------------------- specifications
Requests(paths) ==
  \/ \E s \in Slots, u \in {LongUrls[k] : k \in DOMAIN LongUrls} : CreateStart(s, u)
  \/ \E s \in Slots, c \in CodePool : short_url_generator(s, c)
  \/ \E s \in Slots : CreateCommit(s)
  \/ \E s \in Slots : CreateSet(s)
  \/ \E s \in Slots : CreateSetnx(s)
  \/ \E s \in Slots, c \in paths : ResolveStart(s, c)
  \/ \E s \in Slots : ResolveGet(s)
  \/ \E s \in Slots : ResolveIncr(s)
  \/ \E s \in Slots : ResolveDb(s)
  \/ \E s \in Slots : MissSetShort(s)
  \/ \E s \in Slots : MissSetVisits(s)
  \/ \E s \in Slots : MissIncr(s)
  \/ \E s \in Slots : RecordRead(s)
  \/ \E s \in Slots : RecordCommit(s)

Job ==
  \/ SyncStart
  \/ SyncLoop
  \/ SyncCommit

CacheFaults ==
  \/ Outage
  \/ Recovery
  \/ \E c \in CodePool : Evict(c)
  \/ \E s \in Slots : RedisError(s)
  \/ SyncRedisError

StoreFaults ==
  \/ \E s \in Slots : DbError(s)
  \/ \E bad \in 0..Len(sync.objs) : SyncDbError(bad)

\* One request at a time, the job running beside it, in an environment where the
\* cache client may be absent, Redis may go away and come back and lose keys, and
\* store calls may raise.
Init == InitWith({1})

Next == Requests(ResolveInputs) \/ Job \/ CacheFaults \/ StoreFaults

Spec == Init /\ [][Next]_vars

\* Two requests at a time and the job, with the cache client present, Redis and
\* the store answering every call, and no key lost. Every requested path is a
\* code the generator can draw.
InitConcurrent == InitWith({1, 2}) /\ redis_client

NextConcurrent == Requests(CodePool) \/ Job

SpecConcurrent == InitConcurrent /\ [][NextConcurrent]_vars


\* One request at a time and the job, with the cache and the store answering
\* every call, and a draw space of a single code, so that after one create every candidate the
\* generator draws is taken. A handler that can take a step takes it, and the
\* random draws do not avoid a free candidate for ever.
SmallPool == {<<"a","B","c","1","2","3">>}

Draw(pool) == \E s \in Slots, c \in pool : short_url_generator(s, c)

NextExhausted ==
  \/ \E s \in Slots, u \in {LongUrls[k] : k \in DOMAIN LongUrls} : CreateStart(s, u)
  \/ Draw(SmallPool)
  \/ \E s \in Slots : CreateCommit(s)
  \/ \E s \in Slots : CreateSet(s)
  \/ \E s \in Slots : CreateSetnx(s)
  \/ \E s \in Slots, c \in CodePool : ResolveStart(s, c)
  \/ \E s \in Slots : ResolveGet(s)
  \/ \E s \in Slots : ResolveIncr(s)
  \/ \E s \in Slots : ResolveDb(s)
  \/ \E s \in Slots : RecordRead(s)
  \/ \E s \in Slots : RecordCommit(s)
  \/ Job

SpecExhausted ==
  Init /\ [][NextExhausted]_vars /\ WF_vars(Draw(SmallPool)) /\ WF_vars(NextExhausted)

\* One request at a time, and the job started by its timer, with the cache client
\* present and Redis and the store answering every call. A created code is then
\* always found in the cache, so the repair steps of the miss path never run.
NextScheduler ==
  \/ \E s \in Slots, u \in {LongUrls[k] : k \in DOMAIN LongUrls} : CreateStart(s, u)
  \/ Draw(CodePool)
  \/ \E s \in Slots : CreateCommit(s)
  \/ \E s \in Slots : CreateSet(s)
  \/ \E s \in Slots : CreateSetnx(s)
  \/ \E s \in Slots, c \in CodePool : ResolveStart(s, c)
  \/ \E s \in Slots : ResolveGet(s)
  \/ \E s \in Slots : ResolveIncr(s)
  \/ \E s \in Slots : ResolveDb(s)
  \/ \E s \in Slots : RecordRead(s)
  \/ \E s \in Slots : RecordCommit(s)
  \/ Tick
  \/ Dispatch
  \/ SyncLoop
  \/ SyncCommit

InitScheduler == Init /\ redis_client

SpecScheduler == InitScheduler /\ [][NextScheduler]_vars

\* The same with the scheduling FastAPI gives background tasks: a task that was
\* added with add_task is run after the response, and runs to its end.
SpecRecording ==
  /\ SpecConcurrent
  /\ \A s \in {1, 2} : WF_vars(RecordRead(s)) /\ WF_vars(RecordCommit(s))

\* Requests and their background tasks alone, between two runs of the job:
\* the interval trigger leaves ten minutes in which no pass starts.
NextRequests == Requests(CodePool)

SpecRequests == InitConcurrent /\ [][NextRequests]_vars

\* ================================================================ properties
\* Row of the short code, and its durable visit count.
Durable(c) == short_urls[FindRow(c)].visits

\* A path that is not exactly six alphanumeric characters.
Malformed(code) == Len(code) # 6 \/ \E i \in DOMAIN code : code[i] \notin Alnum

\* C1: a resolve of code c that starts after create(u) answered with c, and
\* whose store calls do not raise, answers 302 with exactly u, whether the
\* mapping is served from the cache or, evicted or never cached, from the store.
C1_CreateThenResolve ==
  (response.op = "resolve" /\ response.expect # "" /\ ~response.dbErr)
    => (response.status = 302 /\ response.url = response.expect)

\* C1 case: a cold resolve (cache miss) of a created code is answered 302.
C1_Witness ==
  /\ redis_client
  /\ response.op = "resolve"
  /\ response.expect # ""
  /\ ~response.hit
  /\ response.status = 302

C3_RepairSetsIfAbsent ==
  [][\A s \in Slots :
       (req[s].pc = "m_setv" /\ req'[s].pc = "m_incr" /\ Has(redis_visits, req[s].code))
         => redis_visits'[req[s].code] = redis_visits[req[s].code]]_vars

C5_PartialFailureIsolation ==
  (response.op = "sync" /\ response.outcome = "failed" /\ response.bad # 0)
    => \A j \in Dirty(response.objs) \ {response.bad} :
         short_urls[j].visits = response.objs[j].visits

\* C6: with every cache call failing, a 500 only ever comes from a store error:
\* create answers 200 with the mapping persisted, and a resolve of a created
\* code answers 302 with its URL.
C6_CacheOutageHarmless ==
  /\ (response.op \in {"create", "resolve"} /\ response.status = 500) => response.dbErr
  /\ (response.op = "create" /\ ~response.csucc /\ ~response.dbErr)
       => /\ response.status = 200
          /\ FindRow(response.code) # 0
          /\ short_urls[FindRow(response.code)].long_url = response.url
  /\ (response.op = "resolve" /\ ~response.csucc /\ response.expect # "" /\ ~response.dbErr)
       => (response.status = 302 /\ response.url = response.expect)

\* C6 case: during an outage a resolve whose cache calls all failed is answered 302.
C6_Witness ==
  /\ redis_client
  /\ ~redis_up
  /\ response.op = "resolve"
  /\ response.calls >= 2
  /\ ~response.csucc
  /\ response.status = 302

\* C7: a path that is not exactly six alphanumeric characters is answered 400,
\* with no cache or store call made, nothing written and no recording scheduled.
C7_MalformedRejected ==
  [][(response'.op = "resolve" /\ Malformed(response'.code))
       => /\ response'.status = 400
          /\ response'.calls = 0
          /\ response'.cwrites = 0
          /\ ~response'.scheduled
          /\ UNCHANGED <<store, cache, req, hist>>]_vars

\* C7 case: a malformed path was answered 400.
C7_Witness ==
  /\ response.op = "resolve"
  /\ Malformed(response.code)
  /\ response.status = 400

\* C8: a well-formed code with no row in the store is answered 404, with no
\* cache entry written, none present for it, and no recording scheduled.
C8_UnknownNotFound ==
  (response.op = "resolve" /\ ~Malformed(response.code)
     /\ FindRow(response.code) = 0 /\ ~response.dbErr)
    => /\ response.status = 404
       /\ response.cwrites = 0
       /\ ~response.scheduled
       /\ ~Has(redis_short, response.code)
       /\ ~Has(redis_visits, response.code)
       /\ \A s \in Slots : req[s].op = "record" => req[s].code # response.code

\* C8 case: a well-formed unknown code was looked up in the store and answered 404.
C8_Witness ==
  /\ response.op = "resolve"
  /\ FindRow(response.code) = 0
  /\ response.calls >= 1
  /\ response.status = 404

\* C9: every successful resolve of one code returns the URL that the first
\* successful resolve of that code returned, whatever happened between them.
C9_SameUrlEveryTime ==
  (response.op = "resolve" /\ response.status = 302)
    => response.url = returned[response.code]

\* C9 case: a code first served from the cache is later served from the store.
C9_Witness ==
  /\ response.op = "resolve"
  /\ response.status = 302
  /\ ~response.hit
  /\ resolved[response.code] >= 2
  /\ hits[response.code] >= 1

\* C10: after a pass of the job that completed, durable visits of every mapping
\* is at least the number of visit events recorded for it when the pass began.
C10_DurableCoversEvents ==
  (response.op = "sync" /\ response.outcome \in {"committed", "nothing"})
    => \A j \in 1..Len(response.objs) : short_urls[j].visits >= response.objs[j].ev


\* C11: no two rows of short_urls share a code, whatever the interleaving of
\* concurrent creates, two creates that drew the same free candidate included.
C11_UniqueCodes ==
  \A i, j \in 1..Len(short_urls) :
    short_urls[i].short_url = short_urls[j].short_url => i = j

\* C11 case: a create whose candidate passed the existence check found the code
\* taken at its commit, by the other create, and was answered 500.
C11_Witness ==
  /\ response.op = "create"
  /\ response.status = 500
  /\ FindRow(response.code) # 0
  /\ Len(short_urls) = 1


\* C12: code generation always terminates: a create that has entered the
\* generator leaves it, with a code or with a failure, even when every candidate
\* it draws is taken.
C12_GeneratorTerminates == (req[1].pc = "gen") ~> (req[1].pc # "gen")


\* C13: at most one execution of the job is in flight: run times processed while
\* a pass is running are dropped and leave the pass alone, a pass is started
\* only when none is running, and several due run times make a single run.
C13_OneExecutionInFlight ==
  [][(scheduler.due > 0 /\ scheduler'.due = 0)
       => /\ scheduler'.stacked = 0
          /\ sync.pc # "idle" => (sync' = sync /\ scheduler'.skipped)
          /\ sync.pc = "idle" => (sync'.pc = "loop" /\ sync'.i = 1)]_vars

\* C13 case: two due run times were combined into one run, and a run time that
\* came due while a pass was running was dropped.
C13_Witness ==
  /\ scheduler.merged
  /\ scheduler.skipped
  /\ sync.pc = "loop"


\* C14: a pass that finds no cache client, or whose every counter read fails,
\* changes no row of the store and commits nothing.
C14_UnavailableCacheNoOp ==
  [][(/\ response'.op = "sync"
      /\ \/ response'.outcome = "no client"
         \/ \A j \in 1..Len(response'.objs) : ~response'.objs[j].read)
       => /\ UNCHANGED store
          /\ response'.outcome # "committed"]_vars

\* C14 case: a pass ended with every counter read failed, over a row whose
\* counter in Redis differs from the durable visits the pass loaded.
C14_Witness ==
  /\ response.op = "sync"
  /\ Len(response.objs) >= 1
  /\ \A j \in 1..Len(response.objs) : ~response.objs[j].read
  /\ \E j \in 1..Len(response.objs) :
       /\ Has(redis_visits, response.objs[j].short_url)
       /\ redis_visits[response.objs[j].short_url] # response.objs[j].loaded


\* C15: no failure inside a pass escapes the job: when a store call of the pass
\* raises, the pass ends with nothing of it written and the job is free again,
\* so that the next trigger starts a new pass.
C15_FailureStaysInJob ==
  [][(response'.op = "sync" /\ response'.outcome = "failed")
       => /\ UNCHANGED <<store, cache>>
          /\ sync' = SyncIdle]_vars

\* C15 case: a new pass has begun after a pass in which a call failed.
C15_Witness ==
  /\ scheduler.failed
  /\ sync.pc = "loop"
  /\ sync.i = 1
  /\ Len(sync.objs) >= 1


\* C16: create writes the mapping entry of its code, and sets the counter entry
\* to 0 only if it is absent: a counter that exists keeps its value.
C16_CreateKeepsCounter ==
  [][\A s \in Slots :
       /\ (req[s].pc = "c_set" /\ req'[s].pc = "c_setnx")
            => (Has(redis_short', req[s].code) /\ redis_short'[req[s].code] = req[s].url)
       /\ (req[s].pc = "c_setnx" /\ req'[s].pc # "c_setnx")
            => /\ Has(redis_visits', req[s].code)
               /\ redis_visits'[req[s].code] =
                    IF Has(redis_visits, req[s].code) THEN redis_visits[req[s].code] ELSE 0]_vars

\* C16 case: a create returned while the counter of its code, set and raised by
\* a concurrent resolve before the create's own counter write, is above 0.
C16_Witness ==
  /\ response.op = "create"
  /\ response.status = 200
  /\ Has(redis_visits, response.code)
  /\ redis_visits[response.code] > 0
  /\ Has(redis_short, response.code)
  /\ redis_short[response.code] = response.url


\* The request bodies that are syntactically valid absolute URLs.
AbsoluteUrls == {"https://example.com/page"}

\* C17: create validates longUrl: for a body that is not a valid absolute URL
\* the answer is a client error, no row holds it and no cache entry holds it.
C17_CreateValidatesUrl ==
  (response.op = "create" /\ response.url \notin AbsoluteUrls /\ ~response.dbErr)
    => /\ response.status \in {400, 422}
       /\ \A i \in 1..Len(short_urls) : short_urls[i].long_url # response.url
       /\ \A c \in DOMAIN redis_short : redis_short[c] # response.url


\* C18: on a cache hit the 302 with the cached URL is produced before the
\* recording runs: the answering step writes nothing to the store and leaves the
\* recording scheduled, and no step of a recording, a failing one included,
\* produces an answer.
C18_RedirectBeforeRecording ==
  [][/\ (response'.op = "resolve" /\ response'.hit /\ response'.status = 302)
          => /\ UNCHANGED store
             /\ response'.scheduled
             /\ \E s \in Slots : /\ req[s].op = "resolve"
                                 /\ response'.url = req[s].url
                                 /\ req'[s].pc = "b_read"
                                 /\ req'[s].code = response'.code
     /\ \A s \in Slots : (req[s].op = "record" /\ req'[s] # req[s])
                            => response'.op = "none"]_vars

\* C18 case: a resolve served from the cache was answered 302 and its recording
\* then failed, leaving fewer visit events than redirects.
C18_Witness ==
  \E c \in DOMAIN issued :
    /\ hits[c] >= 1
    /\ resolved[c] = hits[c]
    /\ \A s \in Slots : req[s].pc = "idle"
    /\ EventsOf(FindRow(c)) < resolved[c]


\* C19: N resolves of one code that were all served from the cache raise its
\* counter by exactly N, in any interleaving: for a code that no miss path has
\* touched, the counter equals the number of cache-hit redirects.
C19_HitsCountedExactly ==
  \A c \in CodePool :
    (/\ Has(redis_visits, c)
     /\ resolved[c] = hits[c]
     /\ \A s \in Slots : req[s].code = c => req[s].pc \notin {"m_set", "m_setv", "m_incr"})
      => redis_visits[c] = hits[c]

\* C19 case: two resolves of one code overlapped, both were answered from the
\* cache and neither recording has finished; the counter is 2.
C19_Witness ==
  \E c \in CodePool :
    /\ hits[c] = 2
    /\ Has(redis_visits, c)
    /\ redis_visits[c] = 2
    /\ \A s \in Slots : req[s].op = "record" /\ req[s].code = c


\* C20: visit events are append-only: every step leaves each committed Visit
\* row in place and unchanged, and can only add rows after them.
C20_VisitsAppendOnly ==
  [][/\ Len(visit_rows') >= Len(visit_rows)
     /\ SubSeq(visit_rows', 1, Len(visit_rows)) = visit_rows]_vars

\* C20 case: a pass of the job committed while two visit events were recorded.
C20_Witness ==
  /\ Len(visit_rows) >= 2
  /\ response.op = "sync"
  /\ response.outcome = "committed"


\* C21: the long URL of a mapping never changes after creation: every step
\* leaves the code and the long URL of every existing row as they were.
C21_LongUrlImmutable ==
  [][/\ Len(short_urls') >= Len(short_urls)
     /\ \A i \in 1..Len(short_urls) :
          /\ short_urls'[i].short_url = short_urls[i].short_url
          /\ short_urls'[i].long_url = short_urls[i].long_url]_vars

\* C21 case: a recording and a committing pass of the job have both written the
\* row of a mapping, whose long URL is still the one create answered with.
C21_Witness ==
  /\ response.op = "sync"
  /\ response.outcome = "committed"
  /\ \E j \in Dirty(response.objs) :
       /\ EventsOf(j) >= 1
       /\ Has(issued, short_urls[j].short_url)
       /\ short_urls[j].long_url = issued[short_urls[j].short_url]


\* C22: when the store query of a resolve raises, after a cache miss or a failed
\* cache read, the caller gets a server error and no long URL, no cache entry is
\* written and no recording is scheduled.
C22_StoreFaultSurfaces ==
  [][(response'.op = "resolve" /\ response'.dbErr)
       => /\ response'.status = 500
          /\ response'.url = ""
          /\ response'.cwrites = 0
          /\ ~response'.scheduled
          /\ UNCHANGED <<store, cache>>
          /\ \A s \in Slots : req'[s].op # "record" \/ req'[s] = req[s]]_vars

\* C22 case: the cache was asked first and had no entry for the code, and the
\* store query then raised.
C22_Witness ==
  /\ redis_client
  /\ response.op = "resolve"
  /\ response.dbErr
  /\ response.calls >= 2
  /\ response.csucc
  /\ response.status = 500


\* C23: a pass assigns a row's visits only when the row's counter is present and
\* differs from the loaded value, and the end of the pass leaves the durable
\* visits of every row it did not assign as it is.
C23_OnlyDifferingWritten ==
  [][/\ (sync.pc = "loop" /\ sync'.pc = "loop" /\ sync'.i = sync.i + 1)
          => LET o == sync.objs[sync.i]
             IN (~Has(redis_visits, o.short_url) \/ redis_visits[o.short_url] = o.loaded)
                  => sync'.objs[sync.i].visits = o.loaded
     /\ response'.op = "sync"
          => \A j \in 1..Len(short_urls) :
               j \notin Dirty(response'.objs)
                 => short_urls'[j].visits = short_urls[j].visits]_vars

\* C23 case: a pass committed the counter of one row and left another row, whose
\* counter it read and found equal, alone.
C23_Witness ==
  /\ response.op = "sync"
  /\ response.outcome = "committed"
  /\ \E j \in 1..Len(response.objs) :
       /\ j \notin Dirty(response.objs)
       /\ response.objs[j].read


\* Recordings of code c that are scheduled and have not finished.
Scheduled(c) == Cardinality({s \in Slots : req[s].op = "record" /\ req[s].code = c})

\* C24: every successful resolve schedules exactly one recording and a failed
\* one none, each recording commits exactly one Visit row of the resolved
\* mapping, and with the store answering every scheduled recording finishes.
C24_OneEventPerRedirect ==
  /\ [](\A c \in CodePool : EventsOf(FindRow(c)) + Scheduled(c) = resolved[c])
  /\ \A s \in {1, 2} : (req[s].op = "record") ~> (req[s].op # "record")

\* C24 case: two redirects of one code, one from the cache and one from the
\* store, have both had their visit event committed.
C24_Witness ==
  \E c \in CodePool :
    /\ resolved[c] = 2
    /\ hits[c] = 1
    /\ Scheduled(c) = 0
    /\ EventsOf(FindRow(c)) = 2


\* C25: the durable visits of a mapping never decreases: no step of a resolve,
\* a background recording or a pass of the job, with or without cache outage,
\* recovery or eviction, lowers the visits of a row.
C25_DurableNeverDecreases ==
  [][\A i \in 1..Len(short_urls) : short_urls'[i].visits >= short_urls[i].visits]_vars


\* C26: the durable visits of a mapping never exceeds the number of successful
\* resolves of its code, also when a pass of the job runs between a resolve's
\* counter increment and its background recording.
C26_DurableAtMostResolves ==
  \A c \in CodePool : FindRow(c) # 0 => short_urls[FindRow(c)].visits <= resolved[c]


\* C27: whenever the cache holds a mapping entry for a code, the store holds a
\* committed row with that code and the same long URL; in particular a create
\* whose commit fails leaves no cache entry.
C27_CacheEntryHasRow ==
  \A c \in DOMAIN redis_short :
    /\ FindRow(c) # 0
    /\ short_urls[FindRow(c)].long_url = redis_short[c]

\* C27 case: with a client configured, a create drew a code and was answered
\* 500 because its commit raised, and the cache has no entry for that code.
C27_Witness ==
  /\ redis_client
  /\ redis_up
  /\ response.op = "create"
  /\ response.status = 500
  /\ response.dbErr
  /\ response.code \in CodePool
  /\ FindRow(response.code) = 0
  /\ ~Has(redis_short, response.code)


\* C28: K concurrent background recordings of one mapping, with no pass of the
\* job in between, raise its durable visits by exactly K: once the recordings
\* have finished, the row's visits is the number of Visit rows they committed.
C28_RecordingsAllCounted ==
  \A c \in CodePool :
    (FindRow(c) # 0 /\ Scheduled(c) = 0)
      => short_urls[FindRow(c)].visits = EventsOf(FindRow(c))


\* C29: reconciliation is idempotent: a pass that starts right after a pass
\* ended, with no request, recording or cache change before or during it,
\* assigns no row and leaves the store and the cache as the first pass left them.
C29_SecondPassChangesNothing ==
  /\ [](  (response.op = "sync" /\ response.quiet /\ response.again # "no")
            => /\ response.outcome = "nothing"
               /\ Len(response.objs) = Len(short_urls)
               /\ \A j \in 1..Len(short_urls) :
                    short_urls[j].visits = response.objs[j].loaded)
  /\ [][(response'.op = "sync" /\ response'.quiet /\ response'.again # "no")
          => UNCHANGED <<store, cache>>]_vars

\* C29 case: the first of two back-to-back passes wrote a counter of at least 1
\* into the store, and the second has ended.
C29_Witness ==
  /\ response.op = "sync"
  /\ response.quiet
  /\ response.again = "committed"
  /\ \E j \in 1..Len(short_urls) :
       /\ Has(redis_visits, short_urls[j].short_url)
       /\ redis_visits[short_urls[j].short_url] >= 1
       /\ short_urls[j].visits = redis_visits[short_urls[j].short_url]

====
